---------------------------- MODULE Spec2Model ----------------------------
(***************************************************************************)
(* A model of PDFToAudio (src/main.py): the batch orchestrator of main,    *)
(* the per-document pipeline of process_pdf, the page loop of              *)
(* extract_text_from_pdf_with_ocr and the cache check and retry loop of    *)
(* convert_text_to_speech.                                                 *)
(*                                                                         *)
(* A text is a sequence of characters.  A file that may be absent, and a   *)
(* value that may be None, is a sequence of length at most one: <<>> is    *)
(* absent/None and <<v>> is present with content v.  An audio file's       *)
(* content is the text it was synthesised from.  The stem of the i-th      *)
(* globbed document is i: one directory holds no two files of one name,    *)
(* so the stems of the files matched by '*.pdf' are pairwise distinct.     *)
(*                                                                         *)
(* The PDF, OCR and speech engines are outside the repository.  They are   *)
(* modelled by their results at the call sites: a page yields a native     *)
(* text (possibly None or empty) and an OCR text, opening a malformed      *)
(* document raises, and tts.save either writes the whole audio file or     *)
(* raises (rate limit, other gTTSError, other exception) leaving no file.  *)
(***************************************************************************)
EXTENDS Integers, Sequences, FiniteSets, TLC

\* ------------------------------------------------------------- bounds
MaxDocs == 2
MaxCpu == 2
BatchRetries == 1
MaxRetries == 3
MaxRetryDelay == 5
MaxPages == 2
RerunDocs == 1

\* ------------------------------------------------- program constants
\* retry_delay=5 of convert_text_to_speech, process_pdf and --retry_delay
DefaultRetryDelay == 5

\* -------------------------------------------------------------- texts
None == <<>>
Some(v) == <<v>>
IsSome(o) == o # <<>>
Get(o) == o[1]

Whitespace == {" "}
NativeTexts == {None, Some(<<>>), Some(<<" ">>), Some(<<"a">>)}
OcrTexts == {<<>>, <<"b">>}
Pages == [native : NativeTexts, ocr : OcrTexts]
OldText == <<"o">>

\* str.strip() of line 146: the text without its leading and trailing
\* whitespace.
RECURSIVE LStrip(_)
LStrip(s) ==
    IF s # <<>> /\ Head(s) \in Whitespace THEN LStrip(Tail(s)) ELSE s

RECURSIVE RStrip(_)
RStrip(s) ==
    IF s # <<>> /\ s[Len(s)] \in Whitespace
    THEN RStrip(SubSeq(s, 1, Len(s) - 1))
    ELSE s

strip(s) == RStrip(LStrip(s))

\* `not text.strip()` of line 146
NoTextFoundEmptyOnly(s) == s = <<>>
NoTextFound(s) == strip(s) = <<>>

\* ------------------------------------------- extract_text_from_pdf_with_ocr
\* `if page_text:` of line 111: a str is truthy iff it is not empty, None
\* is falsy.
HasNativeText(page) == IsSome(page.native) /\ Get(page.native) # <<>>

\* One iteration of the page loop (lines 110-125) on page k: the native
\* text is appended when there is one; otherwise the page is rendered,
\* pytesseract runs on it and its output is appended.  acc.ocr collects
\* the pages pytesseract ran on.
PageStepPrepend(acc, page, k) ==
    IF HasNativeText(page)
    THEN [text |-> Get(page.native) \o acc.text, ocr |-> acc.ocr]
    ELSE [text |-> page.ocr \o acc.text, ocr |-> acc.ocr \cup {k}]
PageStep(acc, page, k) ==
    IF HasNativeText(page)
    THEN [text |-> acc.text \o Get(page.native), ocr |-> acc.ocr]
    ELSE [text |-> acc.text \o page.ocr, ocr |-> acc.ocr \cup {k}]

\* The loop of lines 107-126 over the first k pages: text starts empty and
\* the pages are visited in page order.
RECURSIVE ExtractLoop(_, _)
ExtractLoop(pages, k) ==
    IF k = 0 THEN [text |-> <<>>, ocr |-> {}]
    ELSE PageStep(ExtractLoop(pages, k - 1), pages[k], k)

extract_text_from_pdf_with_ocr(pdf) == ExtractLoop(pdf.pages, Len(pdf.pages))

\* ------------------------------------------------ convert_text_to_speech
\* The outcomes of one tts.save (lines 81-82).
Saved == "saved"
RateLimited == "gTTSError 429 (Too Many Requests)"
OtherGttsError == "gTTSError"
OtherException == "Exception"
Outcomes == {Saved, RateLimited, OtherGttsError, OtherException}

\* `"429 (Too Many Requests)" in str(e)` for a caught gTTSError (lines 84-85)
IsRateLimitAnyGttsError(outcome) == outcome \in {RateLimited, OtherGttsError}
IsRateLimit(outcome) == outcome = RateLimited

\* `retry_delay *= 2` of line 88
BackoffAdd(delay) == delay + DefaultRetryDelay
BackoffConstant(delay) == delay
Backoff(delay) == delay * 2

\* `for attempt in range(max_retries)` of line 79: whether the loop has
\* another iteration after `done` iterations.
HasAttemptOneMore(done, retries) == done <= retries
HasAttempt(done, retries) == done < retries

\* `audio_file_path.exists()` of line 75
AudioExistsNever(folder, stem) == FALSE
AudioExists(folder, stem) == IsSome(folder[stem])

\* The cache lookup of lines 73-77 for text t: the file name decides, the
\* text is not looked at (generate_cache_key and is_cached, lines 28-51,
\* are never called).
CachedByContent(folder, stem, t) == folder[stem] = Some(t)
Cached(folder, stem, t) == AudioExists(folder, stem)

\* -------------------------------------------------------------- state
VARIABLES
    pdf_files,       \* main: the globbed documents, in discovery order
    parallel,        \* args.parallel
    max_retries,     \* args.max_retries
    retry_delay,     \* args.retry_delay
    num_workers,     \* main: os.cpu_count(), 0 while unset
    output_folder,   \* stem -> the text file <output_folder>/<stem>.txt
    audio_folder,    \* stem -> the audio file <audio_folder>/<stem>.mp3
    audio_at_start,  \* history: audio_folder when the batch run started
    mainpc,          \* main's position
    dispatched,      \* main: how many documents were submitted or called
    collected,       \* main: the futures whose result() returned
    main_error,      \* main: the error that left main, None if none
    surfaced,        \* history: the document whose error left main, 0 if none
    finished,        \* as_completed: the futures done since it was called
                     \* and not yet yielded, in the order in which they
                     \* were done
    snapshot,        \* as_completed: the futures found done when it was
                     \* called and not yet yielded
    first_failed,    \* history: the first document whose call raised, 0 if
                     \* none
    pc,              \* document -> position of its process_pdf call
    text,            \* document -> process_pdf's text
    ocr_pages,       \* history: document -> pages pytesseract ran on
    outcomes,        \* history: document -> outcomes of its tts.save calls
    sleeps,          \* history: document -> durations of its time.sleep calls
    delay,           \* document -> convert_text_to_speech's retry_delay
    result,          \* document -> how its process_pdf call ended
    wrote            \* history: document -> the files its call wrote

inputs == <<pdf_files, parallel, max_retries, retry_delay>>
folders == <<output_folder, audio_folder>>
mainvars == <<num_workers, mainpc, dispatched, collected, main_error>>
callvars == <<outcomes, sleeps, delay>>
docvars == <<pc, text, ocr_pages, outcomes, sleeps, delay, result, wrote>>
futvars == <<surfaced, finished, snapshot, first_failed>>
vars == <<inputs, folders, audio_at_start, mainvars, futvars, docvars>>

Docs == DOMAIN pdf_files
\* pdf_path.stem of line 143: the documents of one folder matched by
\* *.pdf have different names, and so different stems.
StemShared(d) == 1
Stem(d) == d

\* How a process_pdf call ends.
Running == "running"
Returned == "returned"
Skipped == "skipped"
ExtractError == "extraction error"
RetriesExhausted == "RuntimeError"
Errors == {ExtractError, RetriesExhausted, OtherGttsError, OtherException}

Terminal(d) == pc[d] = "done"
Raised(d) == result[d] \in Errors
\* The documents a worker thread (or, sequentially, main) is processing.
InProcess(d) == pc[d] \in {"extract", "strip", "tts", "try", "sleep"}

\* ------------------------------------------------------ initial states
Pdf(pages) == [ok |-> TRUE, pages |-> pages]
TextPdf == Pdf(<<[native |-> Some(<<"a">>), ocr |-> <<>>]>>)
ScannedPdf == Pdf(<<[native |-> None, ocr |-> <<"b">>]>>)
BlankPdf == Pdf(<<[native |-> Some(<<" ">>), ocr |-> <<>>]>>)
MalformedPdf == [ok |-> FALSE, pages |-> <<>>]
BatchPdfs == {TextPdf, ScannedPdf, BlankPdf, MalformedPdf}

SeqsUpTo(S, n) == UNION {[1..k -> S] : k \in 0..n}
AllPdfs == {Pdf(pages) : pages \in SeqsUpTo(Pages, MaxPages)}

\* The state of main after line 181, with the documents of the input
\* folder listed and nothing processed.
Start(pdfs, par, retries, rdelay, audio) ==
    /\ pdf_files = pdfs
    /\ parallel = par
    /\ max_retries = retries
    /\ retry_delay = rdelay
    /\ num_workers = 0
    /\ output_folder = [s \in DOMAIN pdfs |-> None]
    /\ audio_folder = audio
    /\ audio_at_start = audio
    /\ mainpc = "main"
    /\ dispatched = 0
    /\ collected = {}
    /\ main_error = None
    /\ surfaced = 0
    /\ finished = <<>>
    /\ snapshot = {}
    /\ first_failed = 0
    /\ pc = [d \in DOMAIN pdfs |-> "idle"]
    /\ text = [d \in DOMAIN pdfs |-> <<>>]
    /\ ocr_pages = [d \in DOMAIN pdfs |-> {}]
    /\ outcomes = [d \in DOMAIN pdfs |-> <<>>]
    /\ sleeps = [d \in DOMAIN pdfs |-> <<>>]
    /\ delay = [d \in DOMAIN pdfs |-> rdelay]
    /\ result = [d \in DOMAIN pdfs |-> Running]
    /\ wrote = [d \in DOMAIN pdfs |-> {}]

\* A batch of up to MaxDocs documents; of those that have text, some have
\* their audio files left in the audio folder by an earlier run.
HasText(pdf) == pdf \in {TextPdf, ScannedPdf}
InitBatch ==
    \E pdfs \in SeqsUpTo(BatchPdfs, MaxDocs), par \in BOOLEAN,
       retries \in 0..BatchRetries :
        \E audio \in [DOMAIN pdfs -> {None, Some(OldText)}] :
            /\ \A d \in DOMAIN pdfs : IsSome(audio[d]) => HasText(pdfs[d])
            /\ Start(pdfs, par, retries, DefaultRetryDelay, audio)

\* One document with text, under every retry configuration.
InitRetry ==
    \E par \in BOOLEAN, retries \in 0..MaxRetries, rdelay \in 0..MaxRetryDelay,
       a \in {None, Some(OldText)} :
        Start(<<TextPdf>>, par, retries, rdelay, <<a>>)

\* One document of up to MaxPages pages of every kind.
InitExtract ==
    \E pdf \in AllPdfs, par \in BOOLEAN :
        Start(<<pdf>>, par, 1, DefaultRetryDelay, <<None>>)

Init == InitBatch \/ InitRetry \/ InitExtract

\* ---------------------------------------------------------- process_pdf
\* Lines 143-144: the stem is taken and the text extracted.  pdfplumber.open
\* raises on a malformed document, and process_pdf catches nothing.
Extract(d) ==
    /\ pc[d] = "extract"
    /\ IF pdf_files[d].ok
       THEN LET r == extract_text_from_pdf_with_ocr(pdf_files[d])
            IN /\ text' = [text EXCEPT ![d] = r.text]
               /\ ocr_pages' = [ocr_pages EXCEPT ![d] = r.ocr]
               /\ pc' = [pc EXCEPT ![d] = "strip"]
               /\ UNCHANGED result
       ELSE /\ result' = [result EXCEPT ![d] = ExtractError]
            /\ pc' = [pc EXCEPT ![d] = "done"]
            /\ UNCHANGED <<text, ocr_pages>>
    /\ UNCHANGED <<inputs, folders, audio_at_start, mainvars, callvars, wrote>>

\* save_text_to_file (lines 23-24) called at line 151: the file is opened
\* for writing and holds the text afterwards.
SaveTextNothing(folder, stem, t) == folder
SaveTextTruncated(folder, stem, t) == [folder EXCEPT ![stem] = Some(<<>>)]
save_text_to_file(folder, stem, t) == [folder EXCEPT ![stem] = Some(t)]

\* The retry_delay parameter of the convert_text_to_speech call for d
\* (line 153): args.retry_delay, in a local variable of that call.
InitialDelayLeftOver(d) == IF d > 1 THEN delay[d - 1] ELSE retry_delay
InitialDelay(d) == retry_delay

\* Lines 146-153: a document without text is skipped; otherwise the text
\* file is written and convert_text_to_speech is called with args.retry_delay.
SkipOrSave(d) ==
    /\ pc[d] = "strip"
    /\ IF NoTextFound(text[d])
       THEN /\ result' = [result EXCEPT ![d] = Skipped]
            /\ pc' = [pc EXCEPT ![d] = "done"]
            /\ UNCHANGED <<output_folder, wrote, delay>>
       ELSE /\ output_folder' = save_text_to_file(output_folder, Stem(d), text[d])
            /\ wrote' = [wrote EXCEPT ![d] = @ \cup {"txt"}]
            /\ delay' = [delay EXCEPT ![d] = InitialDelay(d)]
            /\ pc' = [pc EXCEPT ![d] = "tts"]
            /\ UNCHANGED result
    /\ UNCHANGED <<inputs, audio_folder, audio_at_start, mainvars, text,
                   ocr_pages, outcomes, sleeps>>

\* The text process_pdf passes to convert_text_to_speech at line 153: its
\* own local variable.
Started(d) == pc[d] \in {"strip", "tts", "try", "sleep", "done"}
TextArgLastExtracted(d) ==
    text[CHOOSE e \in Docs : Started(e) /\ \A f \in Docs : Started(f) => f <= e]
TextArg(d) == text[d]

\* ------------------------------------------------ convert_text_to_speech
\* Leaving the for loop of line 79 after `done` iterations: the next
\* iteration if there is one, the RuntimeError of line 94 otherwise.
LoopOrRaise(d, done) ==
    IF HasAttempt(done, max_retries)
    THEN /\ pc' = [pc EXCEPT ![d] = "try"]
         /\ UNCHANGED result
    ELSE /\ result' = [result EXCEPT ![d] = RetriesExhausted]
         /\ pc' = [pc EXCEPT ![d] = "done"]

\* Lines 73-79: an existing audio file is returned as it is; otherwise the
\* retry loop is entered.
CacheCheck(d) ==
    /\ pc[d] = "tts"
    /\ IF Cached(audio_folder, Stem(d), TextArg(d))
       THEN /\ result' = [result EXCEPT ![d] = Returned]
            /\ pc' = [pc EXCEPT ![d] = "done"]
       ELSE LoopOrRaise(d, 0)
    /\ UNCHANGED <<inputs, folders, audio_at_start, mainvars, text, ocr_pages,
                   callvars, wrote>>

\* Lines 80-92, one iteration up to the sleep: tts.save writes the audio
\* file and the path is returned, or it raises; a rate-limit gTTSError
\* leads to the sleep, any other error leaves the function as it is.
Attempt(d) ==
    /\ pc[d] = "try"
    /\ \E o \in Outcomes :
        /\ outcomes' = [outcomes EXCEPT ![d] = Append(@, o)]
        /\ IF o = Saved
           THEN /\ audio_folder' = [audio_folder EXCEPT ![Stem(d)] = Some(TextArg(d))]
                /\ wrote' = [wrote EXCEPT ![d] = @ \cup {"mp3"}]
                /\ result' = [result EXCEPT ![d] = Returned]
                /\ pc' = [pc EXCEPT ![d] = "done"]
           ELSE IF o # OtherException /\ IsRateLimit(o)
           THEN /\ pc' = [pc EXCEPT ![d] = "sleep"]
                /\ UNCHANGED <<audio_folder, wrote, result>>
           ELSE /\ result' = [result EXCEPT ![d] = o]
                /\ pc' = [pc EXCEPT ![d] = "done"]
                /\ UNCHANGED <<audio_folder, wrote>>
    /\ UNCHANGED <<inputs, output_folder, audio_at_start, mainvars, text,
                   ocr_pages, sleeps, delay>>

\* Lines 87-88 and the loop's next step: the thread sleeps retry_delay
\* seconds, doubles retry_delay and goes to the next iteration, or to line
\* 94 when range(max_retries) is used up.
Sleep(d) ==
    /\ pc[d] = "sleep"
    /\ sleeps' = [sleeps EXCEPT ![d] = Append(@, delay[d])]
    /\ delay' = [delay EXCEPT ![d] = Backoff(@)]
    /\ LoopOrRaise(d, Len(outcomes[d]))
    /\ UNCHANGED <<inputs, folders, audio_at_start, mainvars, text, ocr_pages,
                   outcomes, wrote>>

\* ------------------------------------------------- main, sequential mode
\* Whether the loop of lines 191-193 goes on after process_pdf ended with
\* result r: an error leaves the loop and main.
SeqGoesOnAlways(r) == TRUE
SeqGoesOn(r) == r \notin Errors

\* process_pdf is called in main's own thread (line 192): the loop is at
\* its next iteration only when the call of the one before has ended.
PreviousCallEndedAlways == TRUE
PreviousCallEnded == dispatched > 0 => Terminal(dispatched)

\* Lines 191-192: the loop calls process_pdf for the next document, once
\* the call for the one before has returned.
SeqCall(d) ==
    /\ ~parallel
    /\ mainpc = "main"
    /\ d = dispatched + 1
    /\ d \in Docs
    /\ PreviousCallEnded
    /\ dispatched > 0 => SeqGoesOn(result[dispatched])
    /\ dispatched' = d
    /\ pc' = [pc EXCEPT ![d] = "extract"]
    /\ UNCHANGED <<inputs, folders, audio_at_start, num_workers, mainpc,
                   collected, main_error, futvars, text, ocr_pages, callvars,
                   result, wrote>>

\* An error raised by process_pdf leaves the loop and main (nothing in
\* main catches it).
SeqRaise ==
    /\ ~parallel
    /\ mainpc = "main"
    /\ dispatched > 0
    /\ Terminal(dispatched)
    /\ ~SeqGoesOn(result[dispatched])
    /\ mainpc' = "failed"
    /\ main_error' = Some(result[dispatched])
    /\ surfaced' = dispatched
    /\ UNCHANGED <<inputs, folders, audio_at_start, num_workers, dispatched,
                   collected, finished, snapshot, first_failed, docvars>>

\* The loop ends after the last document.
SeqExit ==
    /\ ~parallel
    /\ mainpc = "main"
    /\ dispatched = Len(pdf_files)
    /\ dispatched > 0 => Terminal(dispatched) /\ SeqGoesOn(result[dispatched])
    /\ mainpc' = "succeeded"
    /\ UNCHANGED <<inputs, folders, audio_at_start, num_workers, dispatched,
                   collected, main_error, futvars, docvars>>

\* --------------------------------------------------- main, parallel mode
\* Lines 184-185: the pool is created with os.cpu_count() workers.
OpenPool ==
    /\ parallel
    /\ mainpc = "main"
    /\ \E n \in 1..MaxCpu : num_workers' = n
    /\ mainpc' = IF Docs = {} THEN "as_completed" ELSE "submit"
    /\ UNCHANGED <<inputs, folders, audio_at_start, dispatched, collected,
                   main_error, futvars, docvars>>

\* Lines 186-187: the documents are submitted in discovery order; the
\* workers run while main is still submitting.
Submit(d) ==
    /\ mainpc = "submit"
    /\ d = dispatched + 1
    /\ d \in Docs
    /\ dispatched' = d
    /\ pc' = [pc EXCEPT ![d] = "queued"]
    /\ mainpc' = IF d = Len(pdf_files) THEN "as_completed" ELSE "submit"
    /\ UNCHANGED <<inputs, folders, audio_at_start, num_workers, collected,
                   main_error, futvars, text, ocr_pages, callvars, result,
                   wrote>>

\* Whether a queued future is cancelled: main cancels none, and leaving
\* the with block of line 185 waits for the queued work (lines 185-189).
CancelledOnFailure(d) == main_error # None
Cancelled(d) == FALSE

\* The pool has max_workers threads (line 185): a thread is free while
\* fewer than num_workers documents are in process.
WorkerFreeAlways == TRUE
WorkerFree == Cardinality({e \in Docs : InProcess(e)}) < num_workers

\* A free worker thread takes the oldest queued document and calls
\* process_pdf for it.
WorkerStart(d) ==
    /\ parallel
    /\ pc[d] = "queued"
    /\ \A e \in Docs : e < d => pc[e] # "queued"
    /\ ~Cancelled(d)
    /\ WorkerFree
    /\ pc' = [pc EXCEPT ![d] = "extract"]
    /\ UNCHANGED <<inputs, folders, audio_at_start, mainvars, futvars, text,
                   ocr_pages, callvars, result, wrote>>

\* Line 188, the call of as_completed: the futures that are done by now
\* are set aside to be yielded first.
AsCompleted ==
    /\ mainpc = "as_completed"
    /\ snapshot' = {d \in Docs : Terminal(d)}
    /\ mainpc' = "collect"
    /\ UNCHANGED <<inputs, folders, audio_at_start, num_workers, dispatched,
                   collected, main_error, surfaced, finished, first_failed,
                   docvars>>

\* The future as_completed yields next: one of those found done at its
\* call, in no particular order (they are kept in a set), and after them
\* the others in the order in which they were done.
RemoveDoc(q, d) == SelectSeq(q, LAMBDA e : e # d)
NextYielded(d) ==
    IF snapshot # {}
    THEN d \in snapshot
    ELSE finished # <<>> /\ d = Head(finished)

\* future.result() of line 189 raises what the call raised.
ResultRaisesNever(d) == FALSE
ResultRaises(d) == result[d] \in Errors

\* Lines 188-189: as_completed yields a future that is done, and
\* future.result() returns, or raises what the call raised; a raised
\* error leaves the for loop and closes as_completed.
Collect(d) ==
    /\ mainpc = "collect"
    /\ Terminal(d)
    /\ d \notin collected
    /\ NextYielded(d)
    /\ IF ResultRaises(d)
       THEN /\ main_error' = Some(result[d])
            /\ surfaced' = d
            /\ mainpc' = "shutdown"
            /\ finished' = <<>>
            /\ snapshot' = {}
            /\ UNCHANGED collected
       ELSE /\ collected' = collected \cup {d}
            /\ finished' = RemoveDoc(finished, d)
            /\ snapshot' = snapshot \ {d}
            /\ UNCHANGED <<main_error, surfaced, mainpc>>
    /\ UNCHANGED <<inputs, folders, audio_at_start, num_workers, dispatched,
                   first_failed, docvars>>

\* as_completed is exhausted once every future was yielded.
CollectEnd ==
    /\ mainpc = "collect"
    /\ collected = Docs
    /\ mainpc' = "shutdown"
    /\ UNCHANGED <<inputs, folders, audio_at_start, num_workers, dispatched,
                   collected, main_error, futvars, docvars>>

\* Leaving the with block (line 185) waits until every submitted call has
\* ended; then main returns, or the collected error leaves main.
Shutdown ==
    /\ mainpc = "shutdown"
    /\ \A d \in Docs : Terminal(d) \/ Cancelled(d)
    /\ mainpc' = IF main_error = None THEN "succeeded" ELSE "failed"
    /\ UNCHANGED <<inputs, folders, audio_at_start, num_workers, dispatched,
                   collected, main_error, futvars, docvars>>

\* ------------------------------------------------------- specification
\* Whether the thread running process_pdf for d is held up by another
\* one: time.sleep (line 87) suspends the thread that calls it and no
\* other, and the code takes no lock.
BlockedBySleeper(d) == \E e \in Docs : e # d /\ pc[e] = "sleep"
Blocked(d) == FALSE

\* A process_pdf call, and the end of the pool's work item around it: when
\* the call ends, its future is done, and while main is in the for loop of
\* line 188 as_completed puts it behind the futures it has still to yield.
ProcessPdf(d) ==
    /\ ~Blocked(d)
    /\ Extract(d) \/ SkipOrSave(d) \/ CacheCheck(d) \/ Attempt(d) \/ Sleep(d)
    /\ finished' =
           IF pc'[d] = "done" /\ mainpc = "collect"
           THEN Append(finished, d)
           ELSE finished
    /\ first_failed' =
           IF first_failed = 0 /\ result'[d] \in Errors THEN d ELSE first_failed
    /\ UNCHANGED <<surfaced, snapshot>>

Next ==
    \/ \E d \in Docs : ProcessPdf(d)
    \/ \E d \in Docs : SeqCall(d)
    \/ SeqRaise
    \/ SeqExit
    \/ OpenPool
    \/ \E d \in Docs : Submit(d)
    \/ \E d \in Docs : WorkerStart(d)
    \/ AsCompleted
    \/ \E d \in Docs : Collect(d)
    \/ CollectEnd
    \/ Shutdown

Spec == Init /\ [][Next]_vars

\* ------------------------------------------------------------ reruns
\* The program is run again with the same arguments once main has ended:
\* the folders keep their files, and the documents of the input folder,
\* under the same names, may have been edited in between.
Rerun ==
    /\ mainpc \in {"succeeded", "failed"}
    /\ \E pdfs \in [Docs -> BatchPdfs] : pdf_files' = pdfs
    /\ audio_at_start' = audio_folder
    /\ num_workers' = 0
    /\ mainpc' = "main"
    /\ dispatched' = 0
    /\ collected' = {}
    /\ main_error' = None
    /\ surfaced' = 0
    /\ finished' = <<>>
    /\ snapshot' = {}
    /\ first_failed' = 0
    /\ pc' = [d \in Docs |-> "idle"]
    /\ text' = [d \in Docs |-> <<>>]
    /\ ocr_pages' = [d \in Docs |-> {}]
    /\ outcomes' = [d \in Docs |-> <<>>]
    /\ sleeps' = [d \in Docs |-> <<>>]
    /\ delay' = [d \in Docs |-> retry_delay]
    /\ result' = [d \in Docs |-> Running]
    /\ wrote' = [d \in Docs |-> {}]
    /\ UNCHANGED <<parallel, max_retries, retry_delay, folders>>

\* The first run starts with empty output and audio folders.
InitRerun ==
    \E pdfs \in SeqsUpTo(BatchPdfs, RerunDocs), par \in BOOLEAN,
       retries \in 0..BatchRetries :
        Start(pdfs, par, retries, DefaultRetryDelay, [s \in DOMAIN pdfs |-> None])

NextRerun == Next \/ Rerun

SpecRerun == InitRerun /\ [][NextRerun]_vars

\* ============================================================ claims
\* The process_pdf call of d has its extracted text.
Extracted(d) ==
    \/ pc[d] \in {"strip", "tts", "try", "sleep"}
    \/ pc[d] = "done" /\ result[d] # ExtractError

\* t is empty or holds whitespace only.
AllWhitespace(t) == \A i \in 1..Len(t) : t[i] = " "

\* What a page contributes to the document's text: its native text if
\* that is not empty, its OCR output otherwise.
Contribution(page) ==
    IF page.native = None \/ page.native = Some(<<>>)
    THEN page.ocr
    ELSE page.native[1]

RECURSIVE Concat(_)
Concat(ts) == IF ts = <<>> THEN <<>> ELSE Head(ts) \o Concat(Tail(ts))

\* The text of a document, from its pages alone.
DocumentText(pdf) ==
    Concat([k \in 1..Len(pdf.pages) |-> Contribution(pdf.pages[k])])

RECURSIVE Pow2(_)
Pow2(n) == IF n = 0 THEN 1 ELSE 2 * Pow2(n - 1)

\* C1: a document whose extracted text is empty or whitespace-only is
\* skipped: its process_pdf call writes no text file and no audio file,
\* makes no synthesis attempt and no sleep, ends as a skip, and leaves the
\* two folders' files of its stem as they were; in every reachable state
\* of a sequential or a parallel run.
C1_BlankDocumentCreatesNothing ==
    \A d \in Docs :
        Extracted(d) /\ AllWhitespace(text[d]) =>
            /\ wrote[d] = {}
            /\ outcomes[d] = <<>>
            /\ sleeps[d] = <<>>
            /\ pc[d] \in {"strip", "done"}
            /\ pc[d] = "done" => result[d] = Skipped
            /\ output_folder[Stem(d)] = None
            /\ audio_folder[Stem(d)] = audio_at_start[Stem(d)]

\* C1 witness: a whitespace-only document was skipped in a parallel run.
C1_Witness ==
    \E d \in Docs :
        /\ parallel
        /\ text[d] = <<" ">>
        /\ result[d] = Skipped

C3_ExistingAudioIsNotSynthesised ==
    \A d \in Docs :
        IsSome(audio_at_start[Stem(d)]) =>
            /\ outcomes[d] = <<>>
            /\ sleeps[d] = <<>>
            /\ pc[d] \notin {"try", "sleep"}
            /\ "mp3" \notin wrote[d]
            /\ audio_folder[Stem(d)] = audio_at_start[Stem(d)]
            /\ pc[d] = "done" /\ Extracted(d) /\ ~AllWhitespace(text[d]) =>
                   result[d] = Returned

\* C3 witness: in a later run, the call for a document whose audio file
\* the earlier run wrote has returned.
C3_Witness ==
    \E d \in Docs :
        /\ audio_at_start[Stem(d)] = Some(<<"a">>)
        /\ pdf_files[d] = TextPdf
        /\ result[d] = Returned

\* The first n outcomes of d's synthesis attempts were all rate limits.
RateLimitedUpTo(d, n) == \A k \in 1..n : outcomes[d][k] = RateLimited

\* C4: a synthesis call whose first N-1 attempts are rate limited and whose
\* attempt N succeeds (1 <= N <= max_retries) returns the path of the
\* written audio file after exactly N attempts and N-1 sleeps, the k-th
\* sleep lasting retry_delay * 2^(k-1); and every sleep lies between two
\* attempts: before attempt k+1 exactly k sleeps were made, and the k-th
\* sleep starts after attempt k.
C4_BackoffUntilSuccess ==
    \A d \in Docs :
        LET N == Len(outcomes[d]) IN
        /\ pc[d] = "try" => Len(sleeps[d]) = N
        /\ pc[d] = "sleep" => Len(sleeps[d]) = N - 1
        /\ N >= 1 /\ RateLimitedUpTo(d, N - 1) /\ outcomes[d][N] = Saved =>
               /\ N <= max_retries
               /\ pc[d] = "done"
               /\ result[d] = Returned
               /\ audio_folder[Stem(d)] = Some(text[d])
               /\ Len(sleeps[d]) = N - 1
               /\ \A k \in 1..(N - 1) :
                      sleeps[d][k] = retry_delay * Pow2(k - 1)

\* C4 witness: with the default delay, a call returned on its third
\* attempt after sleeping 5 and 10 seconds.
C4_Witness ==
    \E d \in Docs :
        /\ retry_delay = DefaultRetryDelay
        /\ outcomes[d] = <<RateLimited, RateLimited, Saved>>
        /\ sleeps[d] = <<5, 10>>
        /\ result[d] = Returned

\* What remains of d's retry loop: it falls with every attempt and every
\* sleep.
Remaining(d) ==
    IF pc[d] = "try" THEN 2 * (max_retries - Len(outcomes[d]))
    ELSE IF pc[d] = "sleep" THEN 2 * (max_retries - Len(outcomes[d])) + 1
    ELSE 0

\* The state part of C5: the number of attempts and the terminal error.
C5_Exhaustion ==
    \A d \in Docs :
        /\ Len(outcomes[d]) <= max_retries
        /\ result[d] = RetriesExhausted =>
               /\ Len(outcomes[d]) = max_retries
               /\ RateLimitedUpTo(d, max_retries)
               /\ audio_folder[Stem(d)] = None
        /\ /\ pc[d] = "done"
           /\ Extracted(d) /\ ~AllWhitespace(text[d])
           /\ audio_at_start[Stem(d)] = None
           /\ RateLimitedUpTo(d, Len(outcomes[d]))
           => /\ result[d] = RetriesExhausted
              /\ result[d] \notin {RateLimited, OtherGttsError}

\* The step part of C5: an ended call stays ended, and every step of a
\* retry loop lowers Remaining.
C5_Step ==
    \A d \in Docs :
        /\ pc[d] = "done" =>
               /\ pc'[d] = "done"
               /\ outcomes'[d] = outcomes[d]
               /\ sleeps'[d] = sleeps[d]
               /\ result'[d] = result[d]
        /\ pc[d] \in {"try", "sleep"}
           /\ <<pc[d], outcomes[d], sleeps[d]>> # <<pc'[d], outcomes'[d], sleeps'[d]>>
           => /\ Remaining(d)' < Remaining(d)
              /\ Remaining(d)' >= 0

\* C5: a synthesis call (audio file absent) whose every attempt is rate
\* limited makes exactly max_retries attempts and then raises RuntimeError,
\* which is not the service's error; no call makes more than max_retries
\* attempts, a call that has ended makes no further attempt or sleep, and
\* the call terminates: every attempt and every sleep strictly lowers a
\* measure that is never negative.
C5_RetryExhaustion == []C5_Exhaustion /\ [][C5_Step]_vars

\* C5 witness: a call has raised RuntimeError after MaxRetries rate-limited
\* attempts.
C5_Witness ==
    \E d \in Docs :
        /\ max_retries = MaxRetries
        /\ Len(outcomes[d]) = MaxRetries
        /\ RateLimitedUpTo(d, MaxRetries)
        /\ result[d] = RetriesExhausted

\* C6: an attempt that fails with an error other than the rate limit is
\* the call's last: the call ends at once with that same error, no sleep
\* follows it (the sleeps made are those of the rate-limited attempts
\* before it), and no audio file is written.
C6_OtherErrorsPropagate ==
    \A d \in Docs :
        \A k \in 1..Len(outcomes[d]) :
            outcomes[d][k] \in {OtherGttsError, OtherException} =>
                /\ k = Len(outcomes[d])
                /\ pc[d] = "done"
                /\ result[d] = outcomes[d][k]
                /\ RateLimitedUpTo(d, k - 1)
                /\ Len(sleeps[d]) = k - 1
                /\ "mp3" \notin wrote[d]

\* C6 witness: a gTTSError other than the rate limit ended a call on its
\* second attempt, after one rate-limited attempt.
C6_Witness ==
    \E d \in Docs :
        /\ outcomes[d] = <<RateLimited, OtherGttsError>>
        /\ result[d] = OtherGttsError
        /\ Len(sleeps[d]) = 1

\* C7: the extracted text is the concatenation, in page order and with
\* nothing in between, of the pages' contributions (the native text if it
\* is not empty, the OCR output otherwise), and OCR ran on a page only if
\* its native text is empty or None.
C7_PageLevelOcrFallback ==
    \A d \in Docs :
        Extracted(d) =>
            /\ text[d] = DocumentText(pdf_files[d])
            /\ \A k \in ocr_pages[d] :
                   /\ k \in 1..Len(pdf_files[d].pages)
                   /\ pdf_files[d].pages[k].native \in {None, Some(<<>>)}

\* C7 witness: page 1 has native text, page 2 has none, and the text is
\* page 1's text followed by page 2's OCR output.
C7_Witness ==
    \E d \in Docs :
        /\ Extracted(d)
        /\ Len(pdf_files[d].pages) = 2
        /\ pdf_files[d].pages[1].native = Some(<<"a">>)
        /\ pdf_files[d].pages[2] = [native |-> None, ocr |-> <<"b">>]
        /\ text[d] = <<"a", "b">>
        /\ ocr_pages[d] = {2}

\* What a document's process_pdf call leaves behind, from the document,
\* the audio folder at the start of the run and the outcomes of the call's
\* own synthesis attempts alone.
OwnResult(d) ==
    IF ~pdf_files[d].ok THEN ExtractError
    ELSE IF AllWhitespace(DocumentText(pdf_files[d])) THEN Skipped
    ELSE IF audio_at_start[Stem(d)] # None THEN Returned
    ELSE IF outcomes[d] = <<>> THEN RetriesExhausted
    ELSE LET last == outcomes[d][Len(outcomes[d])]
         IN IF last = Saved THEN Returned
            ELSE IF last = RateLimited THEN RetriesExhausted
            ELSE last

OwnTextFile(d) ==
    IF pdf_files[d].ok /\ ~AllWhitespace(DocumentText(pdf_files[d]))
    THEN Some(DocumentText(pdf_files[d]))
    ELSE None

OwnAudioFile(d) ==
    IF OwnResult(d) = Returned /\ audio_at_start[Stem(d)] = None
    THEN Some(DocumentText(pdf_files[d]))
    ELSE audio_at_start[Stem(d)]

\* No document is malformed, no attempt was rate limited or failed, and
\* no call raised.
NoRateLimitNoErrors ==
    \A d \in Docs :
        /\ pdf_files[d].ok
        /\ result[d] \notin Errors
        /\ \A k \in 1..Len(outcomes[d]) : outcomes[d][k] = Saved

\* C8: when a batch run without rate limits and errors has ended, the
\* files of the output folder (empty at the start) and of the audio folder
\* are a function of the documents and of the audio folder at the start
\* alone: the same in sequential mode and under every interleaving and
\* pool size of parallel mode.
C8_ParallelEqualsSequential ==
    mainpc \in {"succeeded", "failed"} /\ NoRateLimitNoErrors =>
        /\ mainpc = "succeeded"
        /\ \A d \in Docs :
               /\ pc[d] = "done"
               /\ output_folder[Stem(d)] = OwnTextFile(d)
               /\ audio_folder[Stem(d)] = OwnAudioFile(d)

\* C8 witness: a parallel run on two workers has ended after writing the
\* files of two documents with different texts.
C8_Witness ==
    /\ parallel
    /\ num_workers = 2
    /\ mainpc = "succeeded"
    /\ NoRateLimitNoErrors
    /\ \E d, e \in Docs :
        /\ wrote[d] = {"txt", "mp3"}
        /\ wrote[e] = {"txt", "mp3"}
        /\ text[d] # text[e]

\* C9: in sequential mode, once the processing of a document has raised
\* (extraction error, non-rate-limit synthesis error or retry exhaustion),
\* no later document is started, none of their files is written, and main
\* does not end in success.
C9_SequentialAbort ==
    ~parallel =>
        \A i, j \in Docs :
            Raised(i) /\ i < j =>
                /\ pc[j] = "idle"
                /\ result[j] = Running
                /\ wrote[j] = {}
                /\ output_folder[Stem(j)] = None
                /\ audio_folder[Stem(j)] = audio_at_start[Stem(j)]
                /\ mainpc \in {"main", "failed"}

\* C9 witness: a sequential run has failed on its first document and left
\* a second document with text untouched.
C9_Witness ==
    /\ ~parallel
    /\ mainpc = "failed"
    /\ \E i, j \in Docs :
        /\ i < j
        /\ Raised(i)
        /\ main_error = Some(result[i])
        /\ pdf_files[j] = TextPdf
        /\ audio_at_start[Stem(j)] = None
        /\ pc[j] = "idle"

\* C10: in parallel mode nothing cancels a submitted document: a queued
\* document can be started whenever no document is in process, a document
\* in process always has its next step, main ends only after every
\* document has reached its own end (return, skip or raised error), and
\* what a document leaves behind depends on that document alone, whatever
\* the other units did.
C10_NoCancellation ==
    parallel =>
        /\ (\E d \in Docs : pc[d] = "queued") =>
               \/ \E e \in Docs : InProcess(e)
               \/ ENABLED (\E e \in Docs : WorkerStart(e))
        /\ \A d \in Docs : InProcess(d) => ENABLED ProcessPdf(d)
        /\ mainpc \in {"succeeded", "failed"} =>
               \A d \in Docs : pc[d] = "done" /\ result[d] # Running
        /\ \A d \in Docs :
               pc[d] = "done" =>
                   /\ result[d] = OwnResult(d)
                   /\ output_folder[Stem(d)] = OwnTextFile(d)
                   /\ audio_folder[Stem(d)] = OwnAudioFile(d)

\* C10 witness: on a pool of one worker the first document raised, so the
\* second was still queued then, and the second was processed all the
\* same: the run has failed with the first one's error and the second
\* one's files are written.
C10_Witness ==
    /\ parallel
    /\ num_workers = 1
    /\ mainpc = "failed"
    /\ \E d, e \in Docs :
        /\ d < e
        /\ Raised(d)
        /\ main_error = Some(result[d])
        /\ result[e] = Returned
        /\ wrote[e] = {"txt", "mp3"}

\* The step of main in which future.result() raises.
ResultRaised == mainpc = "collect" /\ mainpc' = "shutdown" /\ main_error' # None

\* C11 as claimed: the error a parallel run fails with is that of the
\* first failing unit in completion order.
C11_Original ==
    (parallel /\ mainpc = "failed") => surfaced = first_failed

\* How a parallel run may end: in failure with the error of a unit that
\* raised, or in success when no unit raised and every result was collected.
C11_End ==
    parallel =>
        /\ mainpc = "failed" =>
               /\ surfaced \in Docs
               /\ Raised(surfaced)
               /\ main_error = Some(result[surfaced])
        /\ mainpc = "succeeded" =>
               /\ \A d \in Docs : ~Raised(d)
               /\ collected = Docs
               /\ main_error = None
        /\ (mainpc = "shutdown" /\ \A d \in Docs : Terminal(d)) => ENABLED Shutdown

\* Which failing unit it is: the first one as_completed yields, that is,
\* a unit that was done before as_completed was called, or else the first
\* failing unit in completion order.
C11_Step ==
    ResultRaised =>
        /\ Raised(surfaced')
        /\ main_error' = Some(result[surfaced'])
        /\ surfaced' \in snapshot \/ surfaced' = first_failed
        /\ snapshot = {} => surfaced' = first_failed /\ surfaced' = Head(finished)

\* C11 amended: in parallel mode, if any unit of work raises, the run ends
\* in failure with the error of a unit that raised, never in success: the
\* unit is the first failing one that as_completed yields, which is the
\* first failing unit in completion order unless it was already done when
\* as_completed was called; if no unit raises, the run ends in success
\* after every unit's result has been collected.
C11_ParallelFailureSurfaces == []C11_End /\ [][C11_Step]_vars

\* C11 witness: the first document could not be opened, the second one's
\* synthesis raised, and the run has failed with the error of the second.
C11_Witness ==
    /\ parallel
    /\ mainpc = "failed"
    /\ \E d \in Docs :
        /\ Raised(d)
        /\ result[d] # result[surfaced]
        /\ pc[d] = "done"
    /\ surfaced = 2
    /\ result[1] = ExtractError
    /\ main_error = Some(result[2])

\* The pool is open: main is past line 185.
PoolOpen == parallel /\ mainpc # "main"

\* In every state of a parallel run the pool has its size, at most that
\* many documents are in process, and once main is past the submissions
\* every document was submitted.
C12_Pool ==
    PoolOpen =>
        /\ num_workers \in 1..MaxCpu
        /\ Cardinality({d \in Docs : InProcess(d)}) <= num_workers
        /\ \A d \in Docs : pc[d] # "idle" <=> d <= dispatched
        /\ mainpc # "submit" => dispatched = Len(pdf_files)

\* In every step of a parallel run the pool keeps its size, and a document
\* is handed to process_pdf by a worker that takes it from the queue; a
\* document that was handed over never is queued or handed over again.
C12_Step ==
    parallel =>
        /\ PoolOpen => num_workers' = num_workers
        /\ \A d \in Docs :
            /\ (pc'[d] = "extract" /\ pc[d] # "extract") => pc[d] = "queued"
            /\ (pc'[d] = "queued" /\ pc[d] # "queued") => pc[d] = "idle"
            /\ pc'[d] = "idle" => pc[d] = "idle"

\* C12: in parallel mode all documents are submitted to a pool of fixed
\* size, in every reachable state the number of documents in process is at
\* most the pool size, and each document is handed to process_pdf at most
\* once in a batch run.
C12_BoundedPool == []C12_Pool /\ [][C12_Step]_vars

\* C12 witness: on a pool of one worker the second document waits in the
\* queue while the first is in process, and all documents are submitted.
C12_Witness ==
    /\ parallel
    /\ num_workers = 1
    /\ Len(pdf_files) = 2
    /\ mainpc = "collect"
    /\ InProcess(1)
    /\ pc[2] = "queued"

\* C13: in sequential mode the documents are processed one at a time in
\* discovery order: a document whose processing has started has every
\* document listed before it finished, the documents started are the
\* first ones of the listing, none waits in a queue, and at most one
\* document is in process.
C13_SequentialOrder ==
    ~parallel =>
        /\ \A d \in Docs : pc[d] # "idle" <=> d <= dispatched
        /\ \A d \in Docs : pc[d] # "queued"
        /\ \A d, e \in Docs : (e < d /\ pc[d] # "idle") => Terminal(e)
        /\ Cardinality({d \in Docs : InProcess(d)}) <= 1

\* C13 witness: in a sequential run the first document has returned, the
\* second is in process, and nothing else has started.
C13_Witness ==
    /\ ~parallel
    /\ Len(pdf_files) = 2
    /\ result[1] = Returned
    /\ wrote[1] = {"txt", "mp3"}
    /\ pc[2] = "try"
    /\ mainpc = "main"

\* The files the process_pdf call of d has written.
FilesWritten(d) == {<<Stem(d), k>> : k \in wrote[d]}
\* The documents whose call has written the file of kind k and stem s.
Writers(s, k) == {d \in Docs : Stem(d) = s /\ k \in wrote[d]}

\* C14: in parallel mode the documents have different stems, no file is
\* written by the calls of two documents, and every file written in the
\* run was written by the call of exactly one document and holds that
\* document's text.
C14_NoWriteContention ==
    parallel =>
        /\ \A d, e \in Docs :
               d < e => Stem(d) # Stem(e) /\ FilesWritten(d) \cap FilesWritten(e) = {}
        /\ \A s \in DOMAIN output_folder :
            /\ \A d, e \in Writers(s, "txt") : d = e
            /\ \A d, e \in Writers(s, "mp3") : d = e
            /\ output_folder[s] # None =>
                   \E d \in Writers(s, "txt") : output_folder[s] = Some(text[d])
            /\ audio_folder[s] # audio_at_start[s] =>
                   \E d \in Writers(s, "mp3") : audio_folder[s] = Some(text[d])

\* C14 witness: two workers have written the text files of two documents
\* with different texts at the same time, and both are in synthesis.
C14_Witness ==
    /\ parallel
    /\ num_workers = 2
    /\ Len(pdf_files) = 2
    /\ pc[1] = "try"
    /\ pc[2] = "try"
    /\ text[1] # text[2]
    /\ output_folder[Stem(1)] = Some(text[1])
    /\ output_folder[Stem(2)] = Some(text[2])

\* Some document is queued.
SomeQueued == \E e \in Docs : pc[e] = "queued"
\* A worker can take a document from the queue.
CanStart == ENABLED (\E e \in Docs : WorkerStart(e))
\* A worker of a parallel run is in its backoff sleep.
SomeSleeping == parallel /\ \E d \in Docs : pc[d] = "sleep"

\* C15 as claimed: while the worker of one document sleeps, the other
\* documents of the batch can start and progress.
C15_Original ==
    SomeSleeping =>
        /\ SomeQueued => CanStart
        /\ \A e \in Docs : (InProcess(e) /\ pc[e] # "sleep") => ENABLED ProcessPdf(e)

\* C15 amended: in parallel mode the backoff sleep of one synthesis call
\* holds its own worker and no other: while a document's worker sleeps,
\* every other document in process can take its next step, and a queued
\* document can start exactly when fewer documents are in process,
\* sleeping ones included, than the pool has workers.
C15_SleepBlocksItsWorkerOnly ==
    SomeSleeping =>
        /\ \A e \in Docs : InProcess(e) => ENABLED ProcessPdf(e)
        /\ SomeQueued =>
               (CanStart <=> Cardinality({e \in Docs : InProcess(e)}) < num_workers)

\* C15 witness: on a pool of two workers the first document's call is in
\* its backoff sleep while the second document is in synthesis.
C15_Witness ==
    /\ parallel
    /\ num_workers = 2
    /\ Len(pdf_files) = 2
    /\ pc[1] = "sleep"
    /\ outcomes[1] = <<RateLimited>>
    /\ pc[2] = "try"
    /\ mainpc = "collect"

\* The synthesis call of d has begun: it is at its cache check, at an
\* attempt or in a sleep, or it has ended.
SynthesisBegun(d) ==
    \/ pc[d] \in {"tts", "try", "sleep"}
    \/ outcomes[d] # <<>>
    \/ sleeps[d] # <<>>
    \/ pc[d] = "done" /\ result[d] \notin {Skipped, ExtractError}

\* C16: in every state in which the audio cache check, a synthesis attempt
\* or a backoff sleep of a document takes place or has taken place, the
\* document has non-empty text and <output_folder>/<stem>.txt was written
\* by its process_pdf call and holds the whole extracted text.
C16_TextFileBeforeSynthesis ==
    \A d \in Docs :
        SynthesisBegun(d) =>
            /\ ~NoTextFound(text[d])
            /\ text[d] = extract_text_from_pdf_with_ocr(pdf_files[d]).text
            /\ "txt" \in wrote[d]
            /\ output_folder[Stem(d)] = Some(text[d])

\* C16 witness: a call is at its first attempt, nothing of the audio file
\* is written, and the text file holds the text of two pages.
C16_Witness ==
    \E d \in Docs :
        /\ pc[d] = "try"
        /\ outcomes[d] = <<>>
        /\ Len(pdf_files[d].pages) = 2
        /\ Len(text[d]) = 2
        /\ output_folder[Stem(d)] = Some(text[d])
        /\ audio_folder[Stem(d)] = None

\* The audio file of d was left by an earlier run for another text than
\* the one d has now.
StaleAudio(d) ==
    /\ IsSome(audio_at_start[Stem(d)])
    /\ audio_at_start[Stem(d)] # Some(text[d])

\* C17: when the text of a document has changed since the run that made
\* its audio file, the stem being the same, the run's process_pdf call
\* for it writes the new text to the text file, makes no synthesis
\* attempt, returns, and leaves the audio file of the old text as it was.
C17_StaleCache ==
    \A d \in Docs :
        (pc[d] = "done" /\ result[d] \notin {Skipped, ExtractError} /\ StaleAudio(d)) =>
            /\ result[d] = Returned
            /\ output_folder[Stem(d)] = Some(text[d])
            /\ outcomes[d] = <<>>
            /\ sleeps[d] = <<>>
            /\ wrote[d] = {"txt"}
            /\ audio_folder[Stem(d)] = audio_at_start[Stem(d)]

\* C17 witness: the audio file made in an earlier run from the text "a"
\* is still there after the run in which the document's text is "b" and
\* the text file was rewritten.
C17_Witness ==
    \E d \in Docs :
        /\ pc[d] = "done"
        /\ result[d] = Returned
        /\ audio_at_start[Stem(d)] = Some(<<"a">>)
        /\ audio_folder[Stem(d)] = Some(<<"a">>)
        /\ text[d] = <<"b">>
        /\ output_folder[Stem(d)] = Some(<<"b">>)
        /\ outcomes[d] = <<>>

\* The retry state of the synthesis call of d: the attempts made and the
\* current delay.
RetryState(d) == <<outcomes[d], sleeps[d], delay[d]>>

\* The retry state of a call is a function of that call's own history: a
\* call that has not made an attempt is at the configured delay, and the
\* delay was doubled once for each of its own sleeps.
C18_Local ==
    \A d \in Docs :
        /\ pc[d] = "tts" => outcomes[d] = <<>> /\ sleeps[d] = <<>>
        /\ outcomes[d] = <<>> => delay[d] = retry_delay
        /\ Len(outcomes[d]) <= max_retries
        /\ delay[d] = retry_delay * Pow2(Len(sleeps[d]))
        /\ \A i \in 1..Len(sleeps[d]) : sleeps[d][i] = retry_delay * Pow2(i - 1)

\* A step that changes the retry state of one call is a step of that call
\* and leaves the retry state of every other call as it is.
C18_Step ==
    \A d \in Docs :
        RetryState(d)' # RetryState(d) =>
            /\ pc[d] \in {"strip", "try", "sleep"}
            /\ \A e \in Docs \ {d} : RetryState(e)' = RetryState(e)

\* C18: the attempt counter and the delay are local to one synthesis call:
\* every call starts at its first attempt with the configured delay,
\* whatever the calls before it did, and under every interleaving the
\* attempts and delays of a call are unchanged by those of another.
C18_RetryStateIsLocal == []C18_Local /\ [][C18_Step]_vars

\* C18 witness: the call of the first document has slept and doubled its
\* delay, and the call of the second is in its first sleep with the
\* configured delay.
C18_Witness ==
    /\ Len(pdf_files) = 2
    /\ retry_delay = DefaultRetryDelay
    /\ sleeps[1] = <<DefaultRetryDelay>>
    /\ delay[1] = 2 * DefaultRetryDelay
    /\ pc[2] = "sleep"
    /\ outcomes[2] = <<RateLimited>>
    /\ delay[2] = DefaultRetryDelay

RECURSIVE SumSeq(_)
SumSeq(q) == IF q = <<>> THEN 0 ELSE Head(q) + SumSeq(Tail(q))

\* The number of rate-limited attempts of the synthesis call of d.
RateLimitedAttempts(d) ==
    Cardinality({k \in 1..Len(outcomes[d]) : outcomes[d][k] = RateLimited})

\* C19: the number of sleeps of a synthesis call equals the number of its
\* rate-limited attempts, the last attempt included (while the call is in
\* a sleep, that sleep is the one of its last attempt); a call that has
\* used up its retries has slept max_retries times, for
\* retry_delay * (2^max_retries - 1) seconds in all, before RuntimeError.
C19_SleepAfterEveryRateLimit ==
    \A d \in Docs :
        /\ pc[d] = "sleep" =>
               /\ outcomes[d][Len(outcomes[d])] = RateLimited
               /\ Len(sleeps[d]) = RateLimitedAttempts(d) - 1
        /\ pc[d] # "sleep" => Len(sleeps[d]) = RateLimitedAttempts(d)
        /\ result[d] = RetriesExhausted =>
               /\ RateLimitedAttempts(d) = max_retries
               /\ Len(sleeps[d]) = max_retries
               /\ SumSeq(sleeps[d]) = retry_delay * (Pow2(max_retries) - 1)

\* C19 witness: with three retries and a delay of 2 seconds a call has
\* raised RuntimeError after sleeping 2, 4 and 8 seconds, the last of them
\* after its last attempt.
C19_Witness ==
    \E d \in Docs :
        /\ max_retries = 3
        /\ retry_delay = 2
        /\ result[d] = RetriesExhausted
        /\ outcomes[d] = <<RateLimited, RateLimited, RateLimited>>
        /\ sleeps[d] = <<2, 4, 8>>

\* The errors with which convert_text_to_speech leaves process_pdf.
SynthesisErrors == {RetriesExhausted, OtherGttsError, OtherException}

=============================================================================
